---- MODULE Spec2Model ----
(***************************************************************************)
(* A model of src/helpers.py: the helper functions of an offline           *)
(* text-classification experiment.  Each helper is a call of the analysis  *)
(* script; the frames, arrays and files it reads or writes are the state.  *)
(*                                                                         *)
(* Library routines are modelled by what they do on the values the         *)
(* helpers hand them:                                                      *)
(*   DataFrame.merge(how='inner', on='ID'), Series.isin, Series.unique,    *)
(*   str.join, DataFrame.iloc, KFold(n_splits).split, log_loss,            *)
(*   np.mean, sklearn's train_test_split(test_size, random_state,          *)
(*   stratify) and file.write.                                             *)
(* A frame is a sequence of rows (records); a text is a sequence of        *)
(* characters; a file is the sequence of the pieces written to it.         *)
(***************************************************************************)
EXTENDS Integers, Sequences, FiniteSets, TLC

VARIABLES
    variants_df,   \* the variants frame: rows [ID, Class]
    text_df,       \* the text frame: rows [ID, Text]
    call,          \* the helper call made on the frames, [fn |-> "none"] before it
    ret,           \* what that call returned (or the exception it raised)
    saved,         \* get_unique_text: the file written for save, [open |-> FALSE] if none
    prob_matrix,   \* submission: the matrix, [n, m, fill]
    f,             \* submission: the pieces written to the file so far
    i,             \* submission: the row of the outer loop
    j,             \* submission: the column of the inner loop
    spc,           \* submission: the position in the code
    y,             \* kfold_score: the labels, one per sample (X is the samples 1..Len(y))
    splits,        \* kfold_score: the number of folds
    clf,           \* kfold_score: the classifier object, [fitted_on, fits]
    fold,          \* kfold_score: the iteration of the loop, 0 before the first
    train,         \* kfold_score: the train indices of the iteration
    test,          \* kfold_score: the test indices of the iteration
    y_test_prob,   \* kfold_score: the probability predicted for each test sample's class 1
    values,        \* kfold_score: the per-fold losses appended so far
    tested,        \* kfold_score: history, the test index set of every iteration so far
    clf0,          \* kfold_score: history, the classifier as it was handed to the call
    kpc,           \* kfold_score: the position in the code
    kret,          \* kfold_score: the value returned
    labels,        \* train_test_split: the Class column of the variants file
    rng42,         \* train_test_split: the draws of RandomState(42), as an order of the rows
    split1,        \* train_test_split: what the first call returned
    split2         \* train_test_split: what the second call returned

tvars == <<variants_df, text_df, call, ret, saved>>
svars == <<prob_matrix, f, i, j, spc>>
kvars == <<y, splits, clf, fold, train, test, y_test_prob, values, tested, clf0, kpc, kret>>
pvars == <<labels, rng42, split1, split2>>
vars == <<tvars, svars, kvars, pvars>>

----------------------------------------------------------------------------
(* Bounds of the model *)

MaxRows == 2          \* rows of a frame read from a file
MaxIndex == 2         \* positions listed in an index file
MaxSamples == 2       \* rows of the probability matrix
MaxColumns == 10      \* columns of the probability matrix
MaxN == 4             \* samples handed to kfold_score
MaxSplits == 3        \* folds asked of kfold_score
MaxSplitRows == 6     \* rows of the files handed to train_test_split

SampleIDs == {0, 1, 2}
Classes == {1, 2}
NL == "\n"
Texts == {<<"a">>, <<"b">>, <<"a", "b">>}

SeqsUpTo(S, n) == UNION {[1..k -> S] : k \in 0..n}

Range(s) == {s[k] : k \in DOMAIN s}

VariantRows == [ID : SampleIDs, Class : Classes]
TextRows == [ID : SampleIDs, Text : Texts]

----------------------------------------------------------------------------
(* pandas and str operations used by the table helpers *)

\* left.merge(right, how=..., on='ID'): the rows of right matching one row of left
MatchRows(v, right) ==
    LET m == SelectSeq(right, LAMBDA t : t.ID = v.ID)
    IN  [k \in 1..Len(m) |-> [ID |-> v.ID, Class |-> v.Class, Text |-> m[k].Text]]

\* how='left': a row of left with no match is kept, its Text missing
MatchRowsLeft(v, right) ==
    IF MatchRows(v, right) = <<>>
    THEN <<[ID |-> v.ID, Class |-> v.Class, Text |-> <<>>]>>
    ELSE MatchRows(v, right)

RECURSIVE MergeLeft(_, _)
MergeLeft(left, right) ==
    IF left = <<>> THEN <<>>
    ELSE MatchRowsLeft(Head(left), right) \o MergeLeft(Tail(left), right)

\* how='inner': the matching pairs, in the order of the left keys
RECURSIVE MergeInner(_, _)
MergeInner(left, right) ==
    IF left = <<>> THEN <<>>
    ELSE MatchRows(Head(left), right) \o MergeInner(Tail(left), right)

\* Series.unique(): the distinct values in the order of their first occurrence
RECURSIVE Unique(_)
Unique(s) ==
    IF s = <<>> THEN <<>>
    ELSE LET u == Unique(SubSeq(s, 1, Len(s) - 1))
             x == s[Len(s)]
         IN  IF x \in Range(u) THEN u ELSE Append(u, x)

\* sep.join(texts)
RECURSIVE Join(_, _)
Join(sep, texts) ==
    IF texts = <<>> THEN <<>>
    ELSE IF Len(texts) = 1 THEN texts[1]
    ELSE texts[1] \o <<sep>> \o Join(sep, Tail(texts))

\* the rows whose position is listed, in the order of the table (a mask)
ILocMask(df, positions) ==
    IF \A k \in DOMAIN positions : positions[k] \in (0 - Len(df))..(Len(df) - 1)
    THEN LET listed == {IF positions[k] < 0 THEN positions[k] + Len(df) + 1
                                            ELSE positions[k] + 1 : k \in DOMAIN positions}
             Pick[n \in 0..Len(df)] ==
                 IF n = 0 THEN <<>>
                 ELSE IF n \in listed THEN Append(Pick[n - 1], df[n]) ELSE Pick[n - 1]
         IN  [kind |-> "frame", rows |-> Pick[Len(df)]]
    ELSE [kind |-> "IndexError"]

\* df.iloc[positions, :]: the rows at the positions, a negative one counted from
\* the end; IndexError when a position is out of bounds
ILoc(df, positions) ==
    IF \A k \in DOMAIN positions : positions[k] \in (0 - Len(df))..(Len(df) - 1)
    THEN [kind |-> "frame",
          rows |-> [k \in DOMAIN positions |->
                       df[IF positions[k] < 0 THEN positions[k] + Len(df) + 1
                                              ELSE positions[k] + 1]]]
    ELSE [kind |-> "IndexError"]

----------------------------------------------------------------------------
(* get_full_table *)

get_full_tableLeft(variants, text) == MergeLeft(variants, text)

get_full_table(variants, text) == MergeInner(variants, text)

(* get_unique_text *)

\* variants_df.loc[variants_df['Class'] == cls]['ID']
matching_ids_dfAll(variants, cls) == {variants[k].ID : k \in DOMAIN variants}

matching_ids_df(variants, cls) ==
    {variants[k].ID : k \in {n \in DOMAIN variants : variants[n].Class = cls}}

\* text_df.loc[text_df['ID'].isin(matching_ids_df)]
class_text_df(variants, text, cls) ==
    SelectSeq(text, LAMBDA t : t.ID \in matching_ids_df(variants, cls))

\* class_text_df['Text'].unique()
unique_textDup(variants, text, cls) ==
    LET c == class_text_df(variants, text, cls)
    IN  [k \in DOMAIN c |-> c[k].Text]

unique_text(variants, text, cls) ==
    LET c == class_text_df(variants, text, cls)
    IN  Unique([k \in DOMAIN c |-> c[k].Text])

unique_text_string(variants, text, cls) == Join(NL, unique_text(variants, text, cls))

(* get_training, get_test *)

\* list(pd.read_csv(index_file, names=['ID','ID2'])['ID'])
IndexColumn(index_file) == [k \in DOMAIN index_file |-> index_file[k].ID]

\* X.iloc[train, :], y.iloc[train, :]
get_rows(variants, text, index_file) ==
    LET rows == IndexColumn(index_file)
        X == ILoc(text, rows)
        yy == ILoc(variants, rows)
    IN  IF X.kind = "frame" /\ yy.kind = "frame"
        THEN [kind |-> "frames", X |-> X.rows, y |-> yy.rows]
        ELSE [kind |-> "IndexError"]

----------------------------------------------------------------------------
(* The calls of the table helpers.  One call is made on the frames read. *)

NoCall == [fn |-> "none"]
NoRet == [kind |-> "none"]
NoFile == [open |-> FALSE]

Positions == (0 - 1)..MaxRows
IndexRows == [ID : Positions, ID2 : {"nan"}]

CallGetFullTable ==
    /\ call = NoCall
    /\ call' = [fn |-> "get_full_table"]
    /\ ret' = [kind |-> "frame", rows |-> get_full_table(variants_df, text_df)]
    /\ UNCHANGED <<variants_df, text_df, saved>>

CallGetUniqueText ==
    /\ call = NoCall
    /\ \E cls \in Classes, save \in BOOLEAN :
          /\ call' = [fn |-> "get_unique_text", cls |-> cls, save |-> save]
          /\ ret' = [kind |-> "str", str |-> unique_text_string(variants_df, text_df, cls)]
          /\ saved' = IF save
                       THEN [open |-> FALSE, written |-> TRUE,
                             content |-> unique_text_string(variants_df, text_df, cls)]
                       ELSE saved
    /\ UNCHANGED <<variants_df, text_df>>

CallGetTraining ==
    /\ call = NoCall
    /\ \E train_index \in SeqsUpTo(IndexRows, MaxIndex) :
          /\ call' = [fn |-> "get_training", index |-> train_index]
          /\ ret' = get_rows(variants_df, text_df, train_index)
    /\ UNCHANGED <<variants_df, text_df, saved>>

CallGetTest ==
    /\ call = NoCall
    /\ \E test_index \in SeqsUpTo(IndexRows, MaxIndex) :
          /\ call' = [fn |-> "get_test", index |-> test_index]
          /\ ret' = get_rows(variants_df, text_df, test_index)
    /\ UNCHANGED <<variants_df, text_df, saved>>

----------------------------------------------------------------------------
(* submission(filename, prob_matrix) *)

NumClasses == 9        \* the classes named in the header line
LastCommaColumn == 8   \* if j<8: f.write(',')

\* str(i) of an int, str(x) of a float of the matrix
StrInt(n) == ToString(n)
StrFloat(x) == IF x = 0 THEN "0.0" ELSE "1.0"

RECURSIVE ClassNames(_)
ClassNames(c) ==
    IF c = 0 THEN <<>> ELSE ClassNames(c - 1) \o <<",", "class" \o ToString(c)>>

\* 'ID,class1,class2,class3,class4,class5,class6,class7,class8,class9\n'
HeaderPieces == <<"ID">> \o ClassNames(NumClasses) \o <<NL>>

\* f.write(str(i)+',')
RowIdPieces(row) == <<StrInt(row), ",">>

\* f.write(str(prob_matrix[i][j])); if j<8: f.write(',')
ValuePieces(x, col) ==
    <<StrFloat(x)>> \o (IF col < LastCommaColumn THEN <<",">> ELSE <<>>)

\* the row's newline left out
RowEndPiecesNone == <<>>

\* f.write('\n'), after the inner loop
RowEndPieces == <<NL>>

\* matrices of shape (n, m): all zeros, or a one in column i mod m of row i
Matrix(n, m, fill) ==
    [shape |-> <<n, m>>,
     data |-> [r \in 0..(n - 1) |->
                 [c \in 0..(m - 1) |-> IF fill = "onehot" /\ c = r % m THEN 1 ELSE 0]]]

Matrices ==
    {Matrix(n, m, fill) : n \in 0..MaxSamples, m \in 1..MaxColumns,
                          fill \in {"zeros", "onehot"}}

\* with open(filename, 'w') as f
Open ==
    /\ spc = "start"
    /\ f' = <<>>
    /\ spc' = "header"
    /\ UNCHANGED <<prob_matrix, i, j>>

WriteHeader ==
    /\ spc = "header"
    /\ f' = f \o HeaderPieces
    /\ i' = 0
    /\ spc' = "rows"
    /\ UNCHANGED <<prob_matrix, j>>

\* for i in range(prob_matrix.shape[0])
RowBegin ==
    /\ spc = "rows"
    /\ i < prob_matrix.shape[1]
    /\ f' = f \o RowIdPieces(i)
    /\ j' = 0
    /\ spc' = "cols"
    /\ UNCHANGED <<prob_matrix, i>>

\* for j in range(prob_matrix.shape[1])
WriteValue ==
    /\ spc = "cols"
    /\ j < prob_matrix.shape[2]
    /\ f' = f \o ValuePieces(prob_matrix.data[i][j], j)
    /\ j' = j + 1
    /\ UNCHANGED <<prob_matrix, i, spc>>

RowEnd ==
    /\ spc = "cols"
    /\ j = prob_matrix.shape[2]
    /\ f' = f \o RowEndPieces
    /\ i' = i + 1
    /\ spc' = "rows"
    /\ UNCHANGED <<prob_matrix, j>>

\* the end of the with block
Close ==
    /\ spc = "rows"
    /\ i = prob_matrix.shape[1]
    /\ spc' = "closed"
    /\ UNCHANGED <<prob_matrix, f, i, j>>

----------------------------------------------------------------------------
(* kfold_score(clf, X, y, splits).  X is the samples 0..n-1, y their       *)
(* labels; the classifier is any object with fit and predict_proba.        *)

RECURSIVE Sum(_, _)
Sum(fn, S) ==
    IF S = {} THEN 0
    ELSE LET x == CHOOSE x \in S : TRUE IN fn[x] + Sum(fn, S \ {x})

\* KFold(n_splits=k).split(X), no shuffle: the first n % k folds hold n // k + 1
\* consecutive samples, the others n // k
FoldSize(n, k, fd) == (n \div k) + (IF fd <= n % k THEN 1 ELSE 0)

RECURSIVE FoldStart(_, _, _)
FoldStart(n, k, fd) ==
    IF fd = 1 THEN 0 ELSE FoldStart(n, k, fd - 1) + FoldSize(n, k, fd - 1)

\* every fold of n // k samples: the last n % k samples are in no fold
KFoldTestEven(n, k, fd) ==
    ((fd - 1) * (n \div k))..(fd * (n \div k) - 1)

KFoldTest(n, k, fd) ==
    FoldStart(n, k, fd)..(FoldStart(n, k, fd) + FoldSize(n, k, fd) - 1)

KFoldTrain(n, k, fd) == (0..(n - 1)) \ KFoldTest(n, k, fd)

\* clf.fit on a copy of the classifier: the object handed in is left alone
FitClone(c, X_train) == c

\* clf.fit(X[train], y[train]): the object itself now holds the fit
Fit(c, X_train) == [fitted |-> TRUE, X |-> X_train]

\* Probabilities are multiples of 1/ProbDen; predict_proba gives, per test
\* sample, the probability of class 1 (that of class 2 is the rest).
ProbGrid == {0, 1, 2}
ProbOfClass(label, p1) == IF label = 1 THEN p1 ELSE 2 - p1

\* -log(p) in thousandths, p clipped to [1e-15, 1 - 1e-15] as log_loss does:
\* -log(1e-15) = 34.539, -log(1/2) = 0.693, -log(1 - 1e-15) = 0.000
NegLog(p) == CASE p = 0 -> 34539 [] p = 1 -> 693 [] p = 2 -> 0

\* the mean log-likelihood: the sign of the loss left out
log_lossUnsigned(y_true, prob) ==
    (0 - Sum([s \in DOMAIN y_true |-> NegLog(ProbOfClass(y_true[s], prob[s]))],
             DOMAIN y_true)) \div Cardinality(DOMAIN y_true)

\* log_loss(y_true, y_test_prob): the mean over the test samples of -log of the
\* probability given to the sample's true class
log_loss(y_true, prob) ==
    Sum([s \in DOMAIN y_true |-> NegLog(ProbOfClass(y_true[s], prob[s]))],
        DOMAIN y_true) \div Cardinality(DOMAIN y_true)

\* np.mean(values)
Mean(vs) == Sum(vs, DOMAIN vs) \div Len(vs)

\* lb.transform(y[test]): the true class of every test sample
y_true == [s \in test |-> y[s + 1]]

\* lb.fit(y); k_fold = KFold(n_splits=splits); values = []
\* KFold raises ValueError for fewer than 2 folds, split for more folds than samples
KfoldBegin ==
    /\ kpc \in {"ready", "done"}
    /\ clf0' = clf
    /\ values' = <<>>
    /\ tested' = <<>>
    /\ fold' = 0
    /\ kret' = 0
    /\ kpc' = IF splits < 2 \/ splits > Len(y) THEN "raised" ELSE "loop"
    /\ UNCHANGED <<y, splits, clf, train, test, y_test_prob>>

\* for train, test in k_fold.split(X)
NextFold ==
    /\ kpc = "loop"
    /\ fold < splits
    /\ fold' = fold + 1
    /\ train' = KFoldTrain(Len(y), splits, fold + 1)
    /\ test' = KFoldTest(Len(y), splits, fold + 1)
    /\ tested' = Append(tested, test')
    /\ kpc' = "fit"
    /\ UNCHANGED <<y, splits, clf, y_test_prob, values, clf0, kret>>

\* clf.fit(X[train], y[train])
ClfFit ==
    /\ kpc = "fit"
    /\ clf' = Fit(clf, train)
    /\ kpc' = "predict"
    /\ UNCHANGED <<y, splits, fold, train, test, y_test_prob, values, tested, clf0, kret>>

\* y_test_prob = clf.predict_proba(X[test]): any probabilities; a classifier that
\* was never fit raises
ClfPredict ==
    /\ kpc = "predict"
    /\ \/ /\ clf.fitted
          /\ \E prob \in [test -> ProbGrid] : y_test_prob' = prob
          /\ kpc' = "score"
       \/ /\ ~clf.fitted
          /\ y_test_prob' = y_test_prob
          /\ kpc' = "raised"
    /\ UNCHANGED <<y, splits, clf, fold, train, test, values, tested, clf0, kret>>

\* y_true = lb.transform(y[test]); values.append(log_loss(y_true, y_test_prob))
AppendLoss ==
    /\ kpc = "score"
    /\ values' = Append(values, log_loss(y_true, y_test_prob))
    /\ kpc' = "loop"
    /\ UNCHANGED <<y, splits, clf, fold, train, test, y_test_prob, tested, clf0, kret>>

\* return np.mean(values)
KfoldReturn ==
    /\ kpc = "loop"
    /\ fold = splits
    /\ kret' = Mean(values)
    /\ kpc' = "done"
    /\ UNCHANGED <<y, splits, clf, fold, train, test, y_test_prob, values, tested, clf0>>

----------------------------------------------------------------------------
(* train_test_split(train_variation_file, train_text_file): sklearn's      *)
(* train_test_split(X, y, test_size=0.2, random_state=42,                  *)
(* stratify=y.Class) on the two frames read, which hold one row per        *)
(* sample.  The draws of a RandomState are modelled as an order of the     *)
(* rows: what is drawn first comes first.                                  *)

test_size_percent == 20    \* test_size=0.2

\* y = pd.read_csv(train_variation_file)
VariantsFile == [k \in DOMAIN labels |-> [ID |-> k - 1, Class |-> labels[k]]]

\* X = pd.read_csv(train_text_file, sep="\|\|", ...)
TextFile == [k \in DOMAIN labels |-> [ID |-> k - 1, Text |-> <<"a">>]]

\* RandomState(42): the same draws each time it is constructed
RandomState(call_no) == rng42

\* n_test = ceil(test_size * n_samples), n_train = n_samples - n_test
n_test(n) == (n * test_size_percent + 99) \div 100
n_train(n) == n - n_test(n)

ClassCount(ys, c) == Cardinality({k \in DOMAIN ys : ys[k] = c})

\* the rows of class c in the order they are drawn
ClassOrder(ys, rng, c) == SelectSeq(rng, LAMBDA r : ys[r] = c)

\* _approximate_mode(class_counts, n_draws, rng): the share of class c among
\* n_draws rows, rounded down, plus one for the classes with the largest
\* remainders (equal remainders: the class drawn first)
ApproximateMode(ys, rng, n_draws, c) ==
    LET n == Len(ys)
        cs == Range(ys)
        floored(d) == (ClassCount(ys, d) * n_draws) \div n
        remainder(d) == (ClassCount(ys, d) * n_draws) % n
        first(d) == CHOOSE k \in DOMAIN rng :
                        ys[rng[k]] = d /\ \A m \in 1..(k - 1) : ys[rng[m]] # d
        need_to_add == n_draws - Sum([d \in cs |-> floored(d)], cs)
        ahead == {d \in cs : (remainder(d) > remainder(c))
                              \/ (remainder(d) = remainder(c) /\ first(d) < first(c))}
    IN  floored(c) + (IF remainder(c) > 0 /\ Cardinality(ahead) < need_to_add
                      THEN 1 ELSE 0)

\* without stratify: the rows drawn first, whatever their class
TrainRowsShuffle(ys, rng) ==
    {rng[k] : k \in 1..n_train(Len(ys))}

\* StratifiedShuffleSplit: of every class, the rows drawn first go to train, as
\* many as the class's share of n_train; the others go to test
TrainRows(ys, rng) ==
    UNION {{ClassOrder(ys, rng, c)[k] :
               k \in 1..ApproximateMode(ys, rng, n_train(Len(ys)), c)} : c \in Range(ys)}

\* _safe_indexing of a frame by the row numbers drawn
TakeRows(df, rows) == [k \in DOMAIN rows |-> df[rows[k]]]

\* the checks of the split sizes and of the class counts, then the split; the
\* four frames are returned in the order X_train, X_test, y_train, y_test
sk_train_test_split(X, yy, ys, rng) ==
    LET n == Len(ys)
        n_classes == Cardinality(Range(ys))
    IN  IF \/ n_train(n) = 0
           \/ \E c \in Range(ys) : ClassCount(ys, c) < 2
           \/ n_train(n) < n_classes
           \/ n_test(n) < n_classes
        THEN [kind |-> "ValueError"]
        ELSE LET tr == SelectSeq(rng, LAMBDA r : r \in TrainRows(ys, rng))
                 te == SelectSeq(rng, LAMBDA r : r \notin TrainRows(ys, rng))
             IN  [kind |-> "frames",
                  frames |-> <<TakeRows(X, tr), TakeRows(X, te),
                               TakeRows(yy, tr), TakeRows(yy, te)>>]

\* the first call of the script
SplitCall1 ==
    /\ split1 = NoRet
    /\ split1' = sk_train_test_split(TextFile, VariantsFile, labels, RandomState(1))
    /\ UNCHANGED <<labels, rng42, split2>>

\* a second call on the same files
SplitCall2 ==
    /\ split1 # NoRet
    /\ split2 = NoRet
    /\ split2' = sk_train_test_split(TextFile, VariantsFile, labels, RandomState(2))
    /\ UNCHANGED <<labels, rng42, split1>>

\* the orders of the rows 1..n
Orders(n) == Permutations(1..n)

\* a Class column of n rows, a of class 1 and then the others of class 2
ClassColumn(n, a) == [k \in 1..n |-> IF k <= a THEN 1 ELSE 2]

----------------------------------------------------------------------------
(* Specifications.  Each draws the inputs of its helpers from bounded sets *)
(* and leaves the state of the other helpers as it is.                     *)

TIdle ==
    /\ variants_df = <<>>
    /\ text_df = <<>>
    /\ call = NoCall
    /\ ret = NoRet
    /\ saved = NoFile

SIdle ==
    /\ prob_matrix = Matrix(0, 1, "zeros")
    /\ f = <<>>
    /\ i = 0
    /\ j = 0
    /\ spc = "idle"

KIdle ==
    /\ y = <<>>
    /\ splits = 0
    /\ clf = [fitted |-> FALSE, X |-> {}]
    /\ fold = 0
    /\ train = {}
    /\ test = {}
    /\ y_test_prob = <<>>
    /\ values = <<>>
    /\ tested = <<>>
    /\ clf0 = [fitted |-> FALSE, X |-> {}]
    /\ kpc = "off"
    /\ kret = 0

PIdle ==
    /\ labels = <<>>
    /\ rng42 = <<>>
    /\ split1 = NoRet
    /\ split2 = NoRet

\* get_full_table and get_unique_text on every pair of frames
InitTables ==
    /\ variants_df \in SeqsUpTo(VariantRows, MaxRows)
    /\ text_df \in SeqsUpTo(TextRows, MaxRows)
    /\ call = NoCall
    /\ ret = NoRet
    /\ saved = NoFile
    /\ SIdle /\ KIdle /\ PIdle

NextTables ==
    \/ CallGetFullTable /\ UNCHANGED <<svars, kvars, pvars>>
    \/ CallGetUniqueText /\ UNCHANGED <<svars, kvars, pvars>>

SpecTables == InitTables /\ [][NextTables]_vars

\* get_training and get_test on every pair of frames (the ID columns vary)
InitIndex ==
    /\ variants_df \in SeqsUpTo([ID : SampleIDs, Class : {1}], MaxRows)
    /\ text_df \in SeqsUpTo([ID : SampleIDs, Text : {<<"a">>}], MaxRows)
    /\ call = NoCall
    /\ ret = NoRet
    /\ saved = NoFile
    /\ SIdle /\ KIdle /\ PIdle

NextIndex ==
    \/ CallGetTraining /\ UNCHANGED <<svars, kvars, pvars>>
    \/ CallGetTest /\ UNCHANGED <<svars, kvars, pvars>>

SpecIndex == InitIndex /\ [][NextIndex]_vars

\* submission on every matrix
InitSubmission ==
    /\ prob_matrix \in Matrices
    /\ f = <<>>
    /\ i = 0
    /\ j = 0
    /\ spc = "start"
    /\ TIdle /\ KIdle /\ PIdle

NextSubmission ==
    \/ Open /\ UNCHANGED <<tvars, kvars, pvars>>
    \/ WriteHeader /\ UNCHANGED <<tvars, kvars, pvars>>
    \/ RowBegin /\ UNCHANGED <<tvars, kvars, pvars>>
    \/ WriteValue /\ UNCHANGED <<tvars, kvars, pvars>>
    \/ RowEnd /\ UNCHANGED <<tvars, kvars, pvars>>
    \/ Close /\ UNCHANGED <<tvars, kvars, pvars>>

SpecSubmission == InitSubmission /\ [][NextSubmission]_vars

\* kfold_score on every label array, number of folds and classifier (never fit, or
\* fit before on all the samples); the script may call it again when it returned
InitKfold ==
    /\ \E n \in 1..MaxN : y \in [1..n -> Classes]
    /\ splits \in 1..MaxSplits
    /\ clf \in {[fitted |-> FALSE, X |-> {}], [fitted |-> TRUE, X |-> 0..(Len(y) - 1)]}
    /\ fold = 0
    /\ train = {}
    /\ test = {}
    /\ y_test_prob = <<>>
    /\ values = <<>>
    /\ tested = <<>>
    /\ clf0 = clf
    /\ kpc = "ready"
    /\ kret = 0
    /\ TIdle /\ SIdle /\ PIdle

NextKfold ==
    \/ KfoldBegin /\ UNCHANGED <<tvars, svars, pvars>>
    \/ NextFold /\ UNCHANGED <<tvars, svars, pvars>>
    \/ ClfFit /\ UNCHANGED <<tvars, svars, pvars>>
    \/ ClfPredict /\ UNCHANGED <<tvars, svars, pvars>>
    \/ AppendLoss /\ UNCHANGED <<tvars, svars, pvars>>
    \/ KfoldReturn /\ UNCHANGED <<tvars, svars, pvars>>

SpecKfold == InitKfold /\ [][NextKfold]_vars

\* train_test_split, twice, on files of every size of the two classes and every
\* stream of draws.  The files list the rows class by class; the draws range over
\* every order of the rows, and so over every way the classes can alternate in it.
InitSplit ==
    /\ \E n \in 1..MaxSplitRows :
          /\ \E a \in 0..n : labels = ClassColumn(n, a)
          /\ rng42 \in Orders(n)
    /\ split1 = NoRet
    /\ split2 = NoRet
    /\ TIdle /\ SIdle /\ KIdle

NextSplit ==
    \/ SplitCall1 /\ UNCHANGED <<tvars, svars, kvars>>
    \/ SplitCall2 /\ UNCHANGED <<tvars, svars, kvars>>

SpecSplit == InitSplit /\ [][NextSplit]_vars

\* a script that calls kfold_score and get_unique_text one after the other, in
\* either order, on a classifier and on frames it holds
ScriptFrames ==
    {<<v, t>> : v \in [1..2 -> {[ID |-> 0, Class |-> 1], [ID |-> 1, Class |-> 2]}],
                t \in {<<[ID |-> 0, Text |-> <<"a">>], [ID |-> 1, Text |-> <<"a">>]>>}}

InitCalls ==
    /\ \E n \in 1..MaxN : y \in [1..n -> Classes]
    /\ splits \in 1..MaxSplits
    /\ clf \in {[fitted |-> FALSE, X |-> {}], [fitted |-> TRUE, X |-> 0..(Len(y) - 1)]}
    /\ fold = 0
    /\ train = {}
    /\ test = {}
    /\ y_test_prob = <<>>
    /\ values = <<>>
    /\ tested = <<>>
    /\ clf0 = clf
    /\ kpc = "ready"
    /\ kret = 0
    /\ \E frames \in ScriptFrames : variants_df = frames[1] /\ text_df = frames[2]
    /\ call = NoCall
    /\ ret = NoRet
    /\ saved = NoFile
    /\ SIdle /\ PIdle

NextCalls ==
    \/ KfoldBegin /\ UNCHANGED <<tvars, svars, pvars>>
    \/ NextFold /\ UNCHANGED <<tvars, svars, pvars>>
    \/ ClfFit /\ UNCHANGED <<tvars, svars, pvars>>
    \/ ClfPredict /\ UNCHANGED <<tvars, svars, pvars>>
    \/ AppendLoss /\ UNCHANGED <<tvars, svars, pvars>>
    \/ KfoldReturn /\ UNCHANGED <<tvars, svars, pvars>>
    \/ kpc \in {"ready", "done", "raised"} /\ CallGetUniqueText
          /\ UNCHANGED <<svars, kvars, pvars>>

SpecCalls == InitCalls /\ [][NextCalls]_vars

----------------------------------------------------------------------------
(* Helpers of the properties *)

\* s.split(sep): the pieces of s between the separators
RECURSIVE Split(_, _)
Split(s, sep) ==
    IF sep \notin Range(s) THEN <<s>>
    ELSE LET k == CHOOSE n \in DOMAIN s :
                      s[n] = sep /\ \A m \in 1..(n - 1) : s[m] # sep
         IN  <<SubSeq(s, 1, k - 1)>> \o Split(SubSeq(s, k + 1, Len(s)), sep)

\* the texts a joined string holds: none in the empty string
TextsIn(s) == IF s = <<>> THEN <<>> ELSE Split(s, NL)

IDsOf(df) == {df[k].ID : k \in DOMAIN df}

\* the row at a 0-based position, a negative one counted from the end
RowAt(df, pos) == IF pos < 0 THEN df[Len(df) + pos + 1] ELSE df[pos + 1]

----------------------------------------------------------------------------
(* C1: get_full_table is an inner join on ID.  A sample ID absent from the *)
(* variants table or from the text table has no row in the output, and     *)
(* every output row carries an ID that occurs in both tables.              *)
C1_InnerJoin ==
    call.fn = "get_full_table" =>
        /\ \A id \in SampleIDs :
              (id \notin IDsOf(variants_df) \/ id \notin IDsOf(text_df))
                  => id \notin IDsOf(ret.rows)
        /\ \A k \in DOMAIN ret.rows :
              ret.rows[k].ID \in IDsOf(variants_df) \cap IDsOf(text_df)

\* a join that drops an ID of the variants table and keeps another
C1_Witness ==
    /\ call.fn = "get_full_table"
    /\ ret.rows # <<>>
    /\ \E id \in IDsOf(variants_df) : id \notin IDsOf(text_df)
    /\ \E id \in IDsOf(text_df) : id \notin IDsOf(variants_df)

(* C2: every text in the string get_unique_text returns for cls comes from *)
(* a text row whose ID has class label cls in the variants table.          *)
C2_OnlyClassText ==
    call.fn = "get_unique_text" =>
        \A n \in DOMAIN TextsIn(ret.str) :
            \E k \in DOMAIN text_df :
                /\ text_df[k].Text = TextsIn(ret.str)[n]
                /\ \E m \in DOMAIN variants_df :
                      /\ variants_df[m].ID = text_df[k].ID
                      /\ variants_df[m].Class = call.cls

\* a text of the class is returned while the text of an ID of another class only
\* is left out
C2_Witness ==
    /\ call.fn = "get_unique_text"
    /\ ret.str # <<>>
    /\ \E k \in DOMAIN text_df :
          /\ text_df[k].ID \in IDsOf(variants_df)
          /\ \A m \in DOMAIN variants_df :
                variants_df[m].ID = text_df[k].ID => variants_df[m].Class # call.cls
          /\ \A n \in DOMAIN TextsIn(ret.str) : TextsIn(ret.str)[n] # text_df[k].Text

\* the texts of the rows whose ID has class label cls
ClassTexts(cls) ==
    {text_df[k].Text :
        k \in {n \in DOMAIN text_df :
                 \E m \in DOMAIN variants_df :
                     variants_df[m].ID = text_df[n].ID /\ variants_df[m].Class = cls}}

(* C3: get_unique_text removes duplicate texts.  The returned string is    *)
(* the newline-join of the texts of class cls, every distinct text exactly *)
(* once; the file written for save holds the same string.                  *)
C3_UniqueText ==
    call.fn = "get_unique_text" =>
        /\ Range(TextsIn(ret.str)) = ClassTexts(call.cls)
        /\ Cardinality(Range(TextsIn(ret.str))) = Len(TextsIn(ret.str))
        /\ ret.str = Join(NL, TextsIn(ret.str))
        /\ call.save => saved.content = ret.str

\* the same text attached to two IDs of the class is returned once
C3_Witness ==
    /\ call.fn = "get_unique_text"
    /\ Len(TextsIn(ret.str)) = 1
    /\ \E k, n \in DOMAIN text_df :
          /\ text_df[k].ID # text_df[n].ID
          /\ text_df[k].Text = text_df[n].Text
          /\ text_df[k].Text \in ClassTexts(call.cls)
          /\ {text_df[k].ID, text_df[n].ID} \subseteq matching_ids_df(variants_df, call.cls)

----------------------------------------------------------------------------
\* the rows get_training or get_test returned, when it raised nothing
Returned ==
    /\ call.fn \in {"get_training", "get_test"}
    /\ ret.kind = "frames"

\* both returned frames hold one row per listed position, in listed order: the
\* k-th row of each is the row at the k-th listed position of its table
ByPosition ==
    /\ Len(ret.X) = Len(call.index)
    /\ Len(ret.y) = Len(call.index)
    /\ \A k \in DOMAIN call.index :
          /\ ret.X[k] = RowAt(text_df, call.index[k].ID)
          /\ ret.y[k] = RowAt(variants_df, call.index[k].ID)

(* C10 as stated: get_training and get_test return, for every index file,  *)
(* one row per listed position in listed order from each table, so that    *)
(* the k-th text row and the k-th variants row belong to the same sample   *)
(* ID.                                                                     *)
C10_Original ==
    Returned =>
        /\ ByPosition
        /\ \A k \in DOMAIN call.index : ret.X[k].ID = ret.y[k].ID

(* C10 as amended: the rows are selected by position from each table; the *)
(* k-th text row and the k-th variants row come from the same position,    *)
(* and belong to the same sample ID when the two tables carry the same ID  *)
(* at that position.                                                       *)
C10_ByPosition ==
    Returned =>
        /\ ByPosition
        /\ \A k \in DOMAIN call.index :
              RowAt(text_df, call.index[k].ID).ID = RowAt(variants_df, call.index[k].ID).ID
                  => ret.X[k].ID = ret.y[k].ID

\* two positions listed out of order, one of them twice, on tables that carry the
\* same IDs at them
C10_Witness ==
    /\ Returned
    /\ Len(call.index) = 2
    /\ call.index[1].ID > call.index[2].ID
    /\ ret.X[1] # ret.X[2]
    /\ \A k \in DOMAIN call.index : ret.X[k].ID = ret.y[k].ID

----------------------------------------------------------------------------
\* the lines of the file written: the pieces between the newlines (the last is
\* what follows the last newline)
FileLines == Split(f, NL)

\* the fields of a line: the pieces between the commas
Fields(line) == Split(line, ",")

NumericStrings == {"0.0", "1.0"}

(* C4: the file submission writes has exactly one header line              *)
(* 'ID,class1,...,class9', then exactly one data line per row of the       *)
(* matrix, in row order, and nothing else.                                 *)
C4_Lines ==
    spc = "closed" =>
        /\ Len(FileLines) = prob_matrix.shape[1] + 2
        /\ FileLines[Len(FileLines)] = <<>>
        /\ FileLines[1] = <<"ID", ",", "class1", ",", "class2", ",", "class3", ",",
                            "class4", ",", "class5", ",", "class6", ",", "class7", ",",
                            "class8", ",", "class9">>
        /\ \A r \in 1..prob_matrix.shape[1] :
              /\ FileLines[r + 1] # <<>>
              /\ FileLines[r + 1][1] = ToString(r - 1)
              /\ \A c \in 1..prob_matrix.shape[2] :
                    \E k \in DOMAIN FileLines[r + 1] :
                        FileLines[r + 1][k] = StrFloat(prob_matrix.data[r - 1][c - 1])

\* a matrix of several rows, whatever its number of columns
C4_Witness ==
    /\ spc = "closed"
    /\ prob_matrix.shape[1] = MaxSamples
    /\ prob_matrix.shape[2] # NumClasses

(* C5: for every matrix of dimension (n_sample, n_class), every data line  *)
(* is the ID field followed by exactly nine comma-separated numeric        *)
(* fields: no empty trailing field, no two values without a separator.     *)
C5_NineFields ==
    spc = "closed" =>
        \A r \in 1..prob_matrix.shape[1] :
            LET fields == Fields(FileLines[r + 1])
            IN  /\ Len(fields) = 10
                /\ \A k \in 2..Len(fields) :
                      /\ Len(fields[k]) = 1
                      /\ fields[k][1] \in NumericStrings

----------------------------------------------------------------------------
Samples == 0..(Len(y) - 1)

(* C6: kfold_score returns one non-negative scalar, the mean of the        *)
(* per-fold log-loss values, each of which is non-negative.                *)
C6_NonNegative ==
    kpc = "done" =>
        /\ kret >= 0
        /\ \A k \in DOMAIN values : values[k] >= 0
        /\ kret * Len(values) <= Sum(values, DOMAIN values)
        /\ Sum(values, DOMAIN values) < (kret + 1) * Len(values)

\* a positive mean over several folds, one of them without loss
C6_Witness ==
    /\ kpc = "done"
    /\ kret > 0
    /\ Len(values) >= 2
    /\ \E k \in DOMAIN values : values[k] = 0

(* C9: kfold_score averages over exactly the k folds.  For n samples and   *)
(* 2 <= k <= n the loop runs k iterations and appends k values; in every   *)
(* iteration train and test are disjoint and together all n indices; every *)
(* sample is in the test set of exactly one iteration; and the classifier  *)
(* is fit on the iteration's train indices before it predicts on the test  *)
(* indices, so no fold is scored on a sample the classifier was fit on.    *)
C9_Folds ==
    /\ kpc \in {"fit", "predict", "score"} =>
          /\ train \cap test = {}
          /\ train \cup test = Samples
          /\ Len(values) = fold - 1
    /\ kpc = "score" =>
          /\ clf = [fitted |-> TRUE, X |-> train]
          /\ DOMAIN y_test_prob = test
          /\ clf.X \cap DOMAIN y_test_prob = {}
    /\ kpc = "done" =>
          /\ splits \in 2..Len(y)
          /\ fold = splits
          /\ Len(values) = splits
          /\ Len(tested) = splits
          /\ \A s \in Samples : Cardinality({k \in DOMAIN tested : s \in tested[k]}) = 1

\* a call that returned with folds of unequal size
C9_Witness ==
    /\ kpc = "done"
    /\ splits >= 2
    /\ Len(y) % splits # 0
    /\ Len(values) = splits

(* C7 as stated: helpers share no mutable state across calls; no helper    *)
(* call changes an object passed to it: kfold_score leaves the classifier  *)
(* clf as it was, get_unique_text leaves variants_df and text_df           *)
(* unchanged.                                                              *)
C7_Original ==
    [][/\ clf' = clf
       /\ y' = y
       /\ variants_df' = variants_df
       /\ text_df' = text_df]_vars

(* C7 as amended: no helper call changes the frames or arrays passed to    *)
(* it (get_unique_text leaves variants_df and text_df unchanged,           *)
(* kfold_score leaves y and splits unchanged), but kfold_score fits the    *)
(* classifier it is given in place: when it returns, clf holds the fit on  *)
(* the train indices of the last fold, and a later call is handed that     *)
(* fitted object.                                                          *)
C7_Frame ==
    [][/\ y' = y
       /\ splits' = splits
       /\ variants_df' = variants_df
       /\ text_df' = text_df
       /\ kpc' = "done" =>
             clf' = [fitted |-> TRUE, X |-> Samples \ tested[splits]]
       /\ (kpc = "done" /\ kpc' = "loop") => clf0' = clf]_vars

\* both helpers were called, and kfold_score returned a classifier other than the
\* one it was handed
C7_Witness ==
    /\ call.fn = "get_unique_text"
    /\ kpc = "done"
    /\ clf # clf0
    /\ clf0.fitted

----------------------------------------------------------------------------
\* the four frames a call returned
XTrain(s) == s.frames[1]
XTest(s) == s.frames[2]
YTrain(s) == s.frames[3]
YTest(s) == s.frames[4]

RowIDs(df) == [k \in DOMAIN df |-> df[k].ID]

\* what C8 says of a returned split besides the sizes of its parts: the order of
\* the four frames, the same rows in the text and the variants part, train and
\* test disjoint and covering, every class spread over train and test in its
\* proportion (to the row)
SplitShape(s) ==
    LET n == Len(labels)
    IN  /\ \A k \in DOMAIN XTrain(s) : XTrain(s)[k] = TextFile[XTrain(s)[k].ID + 1]
        /\ \A k \in DOMAIN XTest(s) : XTest(s)[k] = TextFile[XTest(s)[k].ID + 1]
        /\ \A k \in DOMAIN YTrain(s) : YTrain(s)[k] = VariantsFile[YTrain(s)[k].ID + 1]
        /\ \A k \in DOMAIN YTest(s) : YTest(s)[k] = VariantsFile[YTest(s)[k].ID + 1]
        /\ RowIDs(XTrain(s)) = RowIDs(YTrain(s))
        /\ RowIDs(XTest(s)) = RowIDs(YTest(s))
        /\ IDsOf(XTrain(s)) \cap IDsOf(XTest(s)) = {}
        /\ IDsOf(XTrain(s)) \cup IDsOf(XTest(s)) = 0..(n - 1)
        /\ Len(XTrain(s)) + Len(XTest(s)) = n
        /\ \A c \in Classes :
              LET cnt == ClassCount(labels, c)
                  tr == Cardinality({k \in DOMAIN YTrain(s) : YTrain(s)[k].Class = c})
              IN  /\ tr * n > cnt * Len(YTrain(s)) - n
                  /\ tr * n < cnt * Len(YTrain(s)) + n

SameSplitTwice ==
    (split1.kind = "frames" /\ split2 # NoRet) => split2 = split1

====
